---------------------------- MODULE Spec2Model ----------------------------
(***************************************************************************)
(* Model of src/main.py (LLM quiz endpoint): the webhook worker            *)
(* run_quiz_workflow, the heuristic solver heuristic_solve and the file    *)
(* content router attempt_process_file_bytes.                              *)
(*                                                                         *)
(* Texts are sequences of one-character strings, so that substring tests,  *)
(* lower-casing, stripping and the regular-expression search of the code   *)
(* are computed character by character.                                    *)
(***************************************************************************)
EXTENDS Integers, Sequences, FiniteSets, TLC

(***************************************************************************)
(* Bounds of the model.                                                    *)
(***************************************************************************)
\* a problem text is the concatenation of at most MaxPhrases phrases
MaxPhrases == 3
\* a table has at most MaxRows data rows
MaxRows == 2
\* direct calls of the router made one after the other
MaxCalls == 2

(***************************************************************************)
(* Program constants.                                                      *)
(***************************************************************************)
WORKER_TIMEOUT_SECONDS == 170
\* page.set_default_timeout(min(60000, (WORKER_TIMEOUT_SECONDS - 10) * 1000)), in s
PageTimeoutCap == 60
\* httpx.AsyncClient(timeout=60)
HttpTimeout == 60
\* problem_text[:200]
FallbackLen == 200
\* text.strip()[:2000]
OcrLen == 2000
\* pdf.pages[1]
PdfPageIndex == 1

\* the least element of a set of numbers
First(S) == CHOOSE i \in S : \A j \in S : i <= j

(***************************************************************************)
(* Strings.                                                                *)
(***************************************************************************)
Letters ==
    [upper |-> <<"A","B","C","D","E","F","G","H","I","J","K","L","M","N","O","P","Q","R","S","T","U","V","W","X","Y","Z">>,
     lower |-> <<"a","b","c","d","e","f","g","h","i","j","k","l","m","n","o","p","q","r","s","t","u","v","w","x","y","z">>]

\* str.lower() on one character
LowerChar(c) ==
    IF \E i \in 1..26 : Letters.upper[i] = c
    THEN Letters.lower[CHOOSE i \in 1..26 : Letters.upper[i] = c]
    ELSE c

\* str.lower()
Lower(s) == [i \in 1..Len(s) |-> LowerChar(s[i])]

IsSpace(c) == c \in {" ", "\t", "\n", "\r"}

\* str.strip()
Strip(s) ==
    LET keep == {i \in 1..Len(s) : ~IsSpace(s[i])}
    IN  IF keep = {} THEN <<>>
        ELSE SubSeq(s, CHOOSE i \in keep : \A j \in keep : i <= j,
                       CHOOSE i \in keep : \A j \in keep : j <= i)

\* s[:n]
Take(s, n) == SubSeq(s, 1, IF Len(s) <= n THEN Len(s) ELSE n)

\* needle occurs in hay at position i
OccursAt(needle, hay, i) ==
    /\ i >= 1
    /\ i + Len(needle) - 1 <= Len(hay)
    /\ \A k \in 1..Len(needle) : hay[i + k - 1] = needle[k]

\* needle in hay
Contains(hay, needle) == \E i \in 1..(Len(hay) + 1) : OccursAt(needle, hay, i)

(***************************************************************************)
(* The phrases problem texts are made of, and the needles of the code.     *)
(***************************************************************************)
\* the phrases texts are made of
Phrase ==
    [sum_value |-> <<"S","u","m"," ","o","f"," ","t","h","e"," ","v","a","l","u","e"," ">>,
     sum_only |-> <<"s","u","m"," ","o","f"," ","a","l","l"," ">>,
     page2 |-> <<"o","n"," ","p","a","g","e"," ","2"," ">>,
     arith |-> <<"w","h","a","t"," ","i","s"," ","2","+","3","*","4","?"," ">>,
     arith_letter |-> <<"W","h","a","t"," ","i","s"," ","2","+","a","?"," ">>,
     arith_dot |-> <<"w","h","a","t"," ","i","s"," ","1",".","5","+","2","?"," ">>,
     arith_zero |-> <<"w","h","a","t"," ","i","s"," ","1","/","0","?"," ">>,
     bool_nope |-> <<"T","r","u","e"," ","o","r"," ","F","a","l","s","e",","," ","n","o","p","e"," ">>,
     bool_yes |-> <<"t","r","u","e"," ","o","r"," ","f","a","l","s","e",","," ","y","e","s"," ","t","h","i","s"," ","w","o","r","k","s"," ">>,
     bool_is |-> <<"i","s"," ","t","h","e"," ","f","o","l","l","o","w","i","n","g"," ","t","r","u","e"," ">>,
     submit |-> <<"p","o","s","t"," ","t","o"," ","h","t","t","p",":","/","/","q","/","s","u","b","m","i","t"," ">>,
     question |-> <<"Q","1","2","."," ">>]

\* the needles of the code's `in` tests and patterns
Needle ==
    [sum_of |-> <<"s","u","m"," ","o","f">>,
     value |-> <<"v","a","l","u","e">>,
     page2 |-> <<"p","a","g","e"," ","2">>,
     what_is |-> <<"w","h","a","t"," ","i","s"," ">>,
     true_or_false |-> <<"t","r","u","e"," ","o","r"," ","f","a","l","s","e">>,
     is_the_following_true |-> <<"i","s"," ","t","h","e"," ","f","o","l","l","o","w","i","n","g"," ","t","r","u","e">>,
     true |-> <<"t","r","u","e">>,
     yes |-> <<"y","e","s">>,
     http |-> <<"h","t","t","p",":","/","/">>,
     https |-> <<"h","t","t","p","s",":","/","/">>,
     submit |-> <<"s","u","b","m","i","t">>,
     download |-> <<"d","o","w","n","l","o","a","d">>]

Phrases ==
    <<Phrase.sum_value, Phrase.sum_only, Phrase.page2, Phrase.arith, Phrase.arith_letter, Phrase.arith_dot,
      Phrase.arith_zero, Phrase.bool_nope, Phrase.bool_yes, Phrase.bool_is>>

\* the phrases of a page body; Phrase.question starts a numbered question
BodyPhrases == <<Phrase.submit, Phrase.question, Phrase.sum_value, Phrase.page2, Phrase.arith, Phrase.bool_nope>>

RECURSIVE ConcatPhrases(_, _, _)
\* the phrases of ps whose indices are in S, in the order of their indices
ConcatPhrases(ps, S, i) ==
    IF i > Len(ps) THEN <<>>
    ELSE (IF i \in S THEN ps[i] ELSE <<>>) \o ConcatPhrases(ps, S, i + 1)

PhraseSets(ps) == {S \in SUBSET (1..Len(ps)) : Cardinality(S) <= MaxPhrases}

\* the problem texts of the model
Texts == {ConcatPhrases(Phrases, S, 1) : S \in PhraseSets(Phrases)}

\* the page bodies of the model
BodyTexts == {ConcatPhrases(BodyPhrases, S, 1) : S \in PhraseSets(BodyPhrases)}

(***************************************************************************)
(* Numbers: rationals <<n, d>> with d > 0, in lowest terms.                *)
(***************************************************************************)

RECURSIVE Gcd(_, _)
Gcd(a, b) == IF b = 0 THEN a ELSE Gcd(b, a % b)

Rat(n, d) ==
    LET g == Gcd(IF n < 0 THEN -n ELSE n, IF d < 0 THEN -d ELSE d)
        s == IF d < 0 THEN -1 ELSE 1
    IN  <<(s * n) \div g, (s * d) \div g>>

RatAdd(a, b) == Rat(a[1] * b[2] + b[1] * a[2], a[2] * b[2])
RatSub(a, b) == Rat(a[1] * b[2] - b[1] * a[2], a[2] * b[2])
RatMul(a, b) == Rat(a[1] * b[1], a[2] * b[2])
RatDiv(a, b) == Rat(a[1] * b[2], a[2] * b[1])
RatNeg(a) == <<-a[1], a[2]>>

(***************************************************************************)
(* Answer values.                                                          *)
(***************************************************************************)
None == [t |-> "none"]
NumV(q) == [t |-> "num", num |-> q]
BoolV(b) == [t |-> "bool", bool |-> b]
OcrV(s) == [t |-> "ocr_text", text |-> s]
TextV(s) == [t |-> "problem_text", text |-> s]

(***************************************************************************)
(* The arithmetic rule: re.search(r"what is ([0-9\.\-\+\*\/\s]+)\?", low)  *)
(* and eval(expr).                                                         *)
(***************************************************************************)
Digits == <<"0","1","2","3","4","5","6","7","8","9">>
IsDigit(c) == \E i \in 1..10 : Digits[i] = c
DigitVal(c) == (CHOOSE i \in 1..10 : Digits[i] = c) - 1

\* a class that also lets lower-case letters through
ArithCharLetters(c) ==
    \/ IsDigit(c) \/ IsSpace(c) \/ c \in {".", "-", "+", "*", "/"}
    \/ \E i \in 1..26 : Letters.lower[i] = c

\* the character class [0-9\.\-\+\*\/\s]
ArithChar(c) == IsDigit(c) \/ IsSpace(c) \/ c \in {".", "-", "+", "*", "/"}

\* the last index of the longest run of class characters that starts at i
\* (i - 1 when s[i] is not in the class)
RunEnd(s, i) ==
    LET stops == {j \in i..Len(s) : ~ArithChar(s[j])}
    IN  IF stops = {} THEN Len(s)
        ELSE (CHOOSE j \in stops : \A k \in stops : j <= k) - 1

\* the pattern matches with "what is " at position i: the class is greedy
\* and "?" is not in it, so the group is the whole run and "?" follows it
GroupEndsAt(l, b, e) == e >= b /\ e + 1 <= Len(l) /\ l[e + 1] = "?"

MatchesAt(l, i) ==
    /\ OccursAt(Needle.what_is, l, i)
    /\ GroupEndsAt(l, i + Len(Needle.what_is), RunEnd(l, i + Len(Needle.what_is)))

MatchPositions(l) == {i \in 1..Len(l) : MatchesAt(l, i)}

\* the group of the match at position i
GroupAt(l, b) == SubSeq(l, b, RunEnd(l, b))

LeftmostGroup(l, ps) == IF ps = {} THEN <<>> ELSE GroupAt(l, First(ps) + Len(Needle.what_is))

\* m = re.search(...): the leftmost match, m.group(1); <<>> stands for no
\* match (a group is never empty)
SearchArith(l) == LeftmostGroup(l, MatchPositions(l))

\* re.match(r"^[0-9\.\-\+\*\/\s]+$", expr)
FullMatchArith(expr) ==
    /\ Len(expr) >= 1
    /\ \A i \in 1..Len(expr) : ArithChar(expr[i])

(* eval(expr) on the expressions the class admits: decimal literals, the   *)
(* binary operators + - * / with their precedence and unary + and -.       *)
(* The operators ** and // (two adjacent operator characters) are outside  *)
(* the grammar modelled here; no phrase of the model holds them.           *)
IsNumChar(c) == IsDigit(c) \/ c = "."

NumEnd(s, i) ==
    LET stops == {j \in i..Len(s) : ~IsNumChar(s[j])}
    IN  IF stops = {} THEN Len(s)
        ELSE (CHOOSE j \in stops : \A k \in stops : j <= k) - 1

RECURSIVE Tokenize(_, _)
Tokenize(s, i) ==
    IF i > Len(s) THEN <<>>
    ELSE IF IsSpace(s[i]) THEN Tokenize(s, i + 1)
    ELSE IF IsNumChar(s[i])
         THEN <<[k |-> "num", s |-> SubSeq(s, i, NumEnd(s, i))]>>
              \o Tokenize(s, NumEnd(s, i) + 1)
    ELSE <<[k |-> "op", s |-> <<s[i]>>]>> \o Tokenize(s, i + 1)

RECURSIVE DigitsValue(_)
DigitsValue(ds) ==
    IF ds = <<>> THEN 0
    ELSE 10 * DigitsValue(SubSeq(ds, 1, Len(ds) - 1)) + DigitVal(ds[Len(ds)])

RECURSIVE Pow10(_)
Pow10(n) == IF n = 0 THEN 1 ELSE 10 * Pow10(n - 1)

\* a literal is well formed: one dot at most, a digit at least, and no
\* leading zero on a non-zero integer literal
LiteralOk(lit) ==
    LET dots == {i \in 1..Len(lit) : lit[i] = "."}
        digs == SelectSeq(lit, IsDigit)
    IN  /\ Cardinality(dots) <= 1
        /\ Len(digs) >= 1
        /\ (dots = {} /\ Len(lit) > 1 /\ lit[1] = "0") => DigitsValue(digs) = 0

LiteralValue(lit) ==
    LET dots == {i \in 1..Len(lit) : lit[i] = "."}
        digs == SelectSeq(lit, IsDigit)
        frac == IF dots = {} THEN 0 ELSE Len(lit) - (CHOOSE i \in dots : TRUE)
    IN  Rat(DigitsValue(digs), Pow10(frac))

EvalError == [ok |-> FALSE, val |-> <<0, 1>>, pos |-> 0]
EvalOk(v, p) == [ok |-> TRUE, val |-> v, pos |-> p]

IsOp(toks, i, ops) == i <= Len(toks) /\ toks[i].k = "op" /\ toks[i].s[1] \in ops

\* a unary sign applied to the factor r that follows it
SignedFactor(sign, r) ==
    IF ~r.ok THEN r
    ELSE EvalOk(IF sign = "-" THEN RatNeg(r.val) ELSE r.val, r.pos)

RECURSIVE ParseFactor(_, _)
ParseFactor(toks, i) ==
    IF i > Len(toks) THEN EvalError
    ELSE IF IsOp(toks, i, {"+", "-"})
         THEN SignedFactor(toks[i].s[1], ParseFactor(toks, i + 1))
    ELSE IF toks[i].k = "num" /\ LiteralOk(toks[i].s)
         THEN EvalOk(LiteralValue(toks[i].s), i + 1)
    ELSE EvalError

RECURSIVE ParseTermRest(_, _, _)
RECURSIVE TermStep(_, _, _, _)
\* acc op f, then the rest of the term; a zero divisor raises ZeroDivisionError
TermStep(toks, acc, op, f) ==
    IF ~f.ok THEN f
    ELSE IF op = "*" THEN ParseTermRest(toks, RatMul(acc, f.val), f.pos)
    ELSE IF f.val[1] = 0 THEN EvalError
    ELSE ParseTermRest(toks, RatDiv(acc, f.val), f.pos)

ParseTermRest(toks, acc, i) ==
    IF IsOp(toks, i, {"*", "/"})
    THEN TermStep(toks, acc, toks[i].s[1], ParseFactor(toks, i + 1))
    ELSE EvalOk(acc, i)

TermFrom(toks, f) == IF ~f.ok THEN f ELSE ParseTermRest(toks, f.val, f.pos)

ParseTerm(toks, i) == TermFrom(toks, ParseFactor(toks, i))

RECURSIVE ParseExprRest(_, _, _)
RECURSIVE ExprStep(_, _, _, _)
ExprStep(toks, acc, op, t) ==
    IF ~t.ok THEN t
    ELSE IF op = "+" THEN ParseExprRest(toks, RatAdd(acc, t.val), t.pos)
    ELSE ParseExprRest(toks, RatSub(acc, t.val), t.pos)

ParseExprRest(toks, acc, i) ==
    IF IsOp(toks, i, {"+", "-"})
    THEN ExprStep(toks, acc, toks[i].s[1], ParseTerm(toks, i + 1))
    ELSE EvalOk(acc, i)

ExprFrom(toks, t) == IF ~t.ok THEN t ELSE ParseExprRest(toks, t.val, t.pos)

\* the whole input must be consumed
Complete(toks, r) == IF r.ok /\ r.pos = Len(toks) + 1 THEN r ELSE EvalError

EvalTokens(toks) == Complete(toks, ExprFrom(toks, ParseTerm(toks, 1)))

\* eval(expr): [ok |-> FALSE] when it raises (SyntaxError, ZeroDivisionError)
Eval(expr) == EvalTokens(Tokenize(expr, 1))

\* float(eval(expr)) inside try/except: None when eval raised
FloatOrNone(r) == IF r.ok THEN NumV(r.val) ELSE None

\* lines 265-271 on m.group(1) (<<>>: no match)
ArithmeticOn(expr) ==
    IF expr # <<>> /\ FullMatchArith(expr) THEN FloatOrNone(Eval(expr)) ELSE None

\* lines 264-271: the result of the arithmetic rule, None when it has none
ArithmeticRule(l) == ArithmeticOn(SearchArith(l))

\* the expression handed to eval, <<>> when none is
EvaluatedOn(expr) == IF expr # <<>> /\ FullMatchArith(expr) THEN expr ELSE <<>>

\* the expression handed to eval by the arithmetic rule, <<>> when none is
Evaluated(l) == EvaluatedOn(SearchArith(l))

(***************************************************************************)
(* File blobs.  file_bytes is modelled by what the libraries make of it:   *)
(* the format the bytes really are in, the mime type magic.from_buffer     *)
(* reports for them, and the parsed content (payload).  A table is a       *)
(* sequence of rows, the first one the header; names and cells are texts.  *)
(***************************************************************************)
\* what magic.from_buffer(file_bytes, mime=True) answers
Mime ==
    [pdf |-> <<"a","p","p","l","i","c","a","t","i","o","n","/","p","d","f">>,
     csv |-> <<"t","e","x","t","/","c","s","v">>,
     plain |-> <<"t","e","x","t","/","p","l","a","i","n">>,
     xls |-> <<"a","p","p","l","i","c","a","t","i","o","n","/","v","n","d",".","m","s","-","e","x","c","e","l">>,
     zip |-> <<"a","p","p","l","i","c","a","t","i","o","n","/","z","i","p">>,
     png |-> <<"i","m","a","g","e","/","p","n","g">>,
     bin |-> <<"a","p","p","l","i","c","a","t","i","o","n","/","o","c","t","e","t","-","s","t","r","e","a","m">>,
     empty |-> <<"a","p","p","l","i","c","a","t","i","o","n","/","x","-","e","m","p","t","y">>]

\* file names
Name ==
    [csv |-> <<"d",".","c","s","v">>,
     pdf |-> <<"D",".","P","D","F">>,
     xlsx |-> <<"d",".","x","l","s","x">>,
     png |-> <<"d",".","p","n","g">>,
     file |-> <<"f","i","l","e">>,
     bin |-> <<"d","o","w","n","l","o","a","d","e","d",".","b","i","n">>,
     snapshot |-> <<"p","a","g","e","_","s","n","a","p","s","h","o","t",".","p","n","g">>,
     embedded |-> <<"e","m","b","e","d","d","e","d",".","b","i","n">>,
     embedded_csv |-> <<"e","m","b","e","d","d","e","d",".","c","s","v">>]
\* filename is None (no text holds a four-letter character)
NoName == <<"None">>

\* the suffixes of the lower.endswith tests
Ext ==
    [png |-> <<".","p","n","g">>,
     jpg |-> <<".","j","p","g">>,
     pdf |-> <<".","p","d","f">>,
     csv |-> <<".","c","s","v">>,
     xlsx |-> <<".","x","l","s","x">>,
     xls |-> <<".","x","l","s">>]
\* the needles of the `in mime` tests
Kind ==
    [image |-> <<"i","m","a","g","e">>,
     pdf |-> <<"p","d","f">>,
     csv |-> <<"c","s","v">>,
     excel |-> <<"e","x","c","e","l">>]

\* column headers
Col ==
    [value |-> <<"V","a","l","u","e">>,
     amount |-> <<"a","m","o","u","n","t">>]
\* cells: a number and a text
Cell ==
    [five |-> <<"5">>,
     text |-> <<"x">>]

\* str.endswith
EndsWith(s, suffix) == OccursAt(suffix, s, Len(s) - Len(suffix) + 1)

Blob(format, mime, payload) == [format |-> format, mime |-> mime, payload |-> payload]

\* file_bytes is None
NoFile == Blob("none", <<>>, <<>>)

\* `if file_bytes:`
Truthy(b) == b.format \notin {"none", "empty"}


RowsOf(w) == UNION {[1..n -> [1..w -> {Cell.five, Cell.text}]] : n \in 0..MaxRows}

\* the tables of the model: a header and at most MaxRows rows of its width
Tables == UNION {{<<h>> \o rows : rows \in RowsOf(Len(h))} :
                h \in {<<Col.value>>, <<Col.amount>>, <<Col.value, Col.amount>>, <<Col.amount, Col.value>>}}

\* a one-column table with a "value" header, on page index 0 of every PDF
FrontTable == <<<<Col.value>>, <<Cell.five>>>>

\* PDF documents: one page; two pages, the second without a table; two
\* pages, the second holding one table, or two
PdfDocs ==
    {<<<<FrontTable>>>>, <<<<FrontTable>>, <<>>>>}
    \cup {<<<<FrontTable>>, <<t>>>> : t \in Tables}
    \cup {<<<<FrontTable>>, <<t, FrontTable>>>> : t \in Tables}

(***************************************************************************)
(* attempt_process_file_bytes (lines 193-247).  It holds no await, so a    *)
(* call is one atomic step.  fault is the step of this call that fails:    *)
(*   "sniff"  magic.from_buffer raises        (line 194)                  *)
(*   "create" NamedTemporaryFile raises      (line 198)                   *)
(*   "write"  tf.write or tf.flush raises    (lines 199-200)              *)
(*   "ocr"    pytesseract / Image.open raise (line 204)                   *)
(* os.unlink of an existing file is taken to succeed.  The parsers raise   *)
(* on bytes that are not in their format.                                  *)
(***************************************************************************)
Faults == {"none", "sniff", "create", "write", "ocr"}

CellIsNumeric(c) == Len(c) >= 1 /\ \A i \in 1..Len(c) : IsDigit(c[i])

\* the cells of column j, rows in order
ColumnCells(table, j) == [r \in 1..(Len(table) - 1) |-> table[r + 1][j]]

RECURSIVE SumNumeric(_)
\* pd.to_numeric(errors="coerce") then sum(skipna=True)
SumNumeric(cells) ==
    IF cells = <<>> THEN 0
    ELSE (IF CellIsNumeric(cells[1]) THEN DigitsValue(cells[1]) ELSE 0)
         + SumNumeric(Tail(cells))

\* [c for c in df.columns if c.lower() == "value"]
ValueColumns(table) == {j \in 1..Len(table[1]) : Lower(table[1][j]) = Needle.value}

\* pandas gives a column a numeric dtype when it has rows and every cell parses
NumericDtype(table, j) ==
    /\ Len(table) >= 2
    /\ \A r \in 1..(Len(table) - 1) : CellIsNumeric(table[r + 1][j])

NumericColumns(table) == {j \in 1..Len(table[1]) : NumericDtype(table, j)}

NoResult == [returns |-> FALSE, raises |-> FALSE, value |-> None]
Returns(v) == [returns |-> TRUE, raises |-> FALSE, value |-> v]
Raises == [returns |-> FALSE, raises |-> TRUE, value |-> None]

\* float(df[col].sum(skipna=True)) after pd.to_numeric(errors="coerce")
CoercedSum(table, j) == NumV(<<SumNumeric(ColumnCells(table, j)), 1>>)

\* lines 215-220 on tables[0]
PdfTable(table) ==
    IF ValueColumns(table) = {} THEN NoResult
    ELSE Returns(CoercedSum(table, First(ValueColumns(table))))

\* lines 213-214
PdfPage(tables) == IF tables = <<>> THEN NoResult ELSE PdfTable(tables[1])

\* lines 209-222: the PDF branch, inside its own try/except
PdfBranch(b) ==
    IF b.format # "pdf" THEN NoResult                       \* pdfplumber.open raises
    ELSE IF Len(b.payload) < PdfPageIndex + 1 THEN NoResult  \* len(pdf.pages) >= 2
    ELSE PdfPage(b.payload[PdfPageIndex + 1])

\* float(df[col].sum()): a column of strings sums to their concatenation,
\* on which float raises
ValueSum(table, j) ==
    IF Len(table) = 1 \/ NumericDtype(table, j)
    THEN Returns(CoercedSum(table, j))
    ELSE Raises

\* lines 228-230 and 236-238
FirstNumericSum(table, nums) ==
    IF nums # {} THEN Returns(CoercedSum(table, First(nums))) ELSE NoResult

\* lines 224-230 and 232-238: the CSV and the Excel branch on a parsed sheet
SheetBranch(table) ==
    IF ValueColumns(table) # {}
    THEN ValueSum(table, First(ValueColumns(table)))
    ELSE FirstNumericSum(table, NumericColumns(table))

CsvBranch(b) == IF b.format # "csv" THEN Raises ELSE SheetBranch(b.payload)
ExcelBranch(b) == IF b.format # "excel" THEN Raises ELSE SheetBranch(b.payload)

\* lines 202-207
OcrBranch(b, fault) ==
    IF fault = "ocr" \/ b.format # "image" THEN NoResult
    ELSE Returns(OcrV(Take(Strip(b.payload), OcrLen)))

\* lines 202-238 given what each branch does: a branch is tried when its
\* test holds, ends the call when it returns, and ends it with None when the
\* CSV or Excel branch raises into the outer except (the OCR and PDF branches
\* catch their own errors)
Chain(wantsOcr, o, wantsPdf, p, wantsCsv, c, wantsXls, x) ==
    IF wantsOcr /\ o.returns THEN o.value
    ELSE IF wantsPdf /\ p.returns THEN p.value
    ELSE IF wantsCsv /\ c.returns THEN c.value
    ELSE IF wantsCsv /\ c.raises THEN None
    ELSE IF wantsXls /\ x.returns THEN x.value
    ELSE None

\* lines 202-238: the dispatch once the bytes are staged
Dispatch(b, lower, fault, enabled) ==
    Chain(enabled /\ (EndsWith(lower, Ext.png) \/ EndsWith(lower, Ext.jpg)
                      \/ Contains(b.mime, Kind.image)),
          OcrBranch(b, fault),
          Contains(b.mime, Kind.pdf) \/ EndsWith(lower, Ext.pdf),
          PdfBranch(b),
          Contains(b.mime, Kind.csv) \/ EndsWith(lower, Ext.csv),
          CsvBranch(b),
          Contains(b.mime, Kind.excel) \/ EndsWith(lower, Ext.xlsx) \/ EndsWith(lower, Ext.xls),
          ExcelBranch(b))

\* the outcome of one call: it raises to its caller or returns value, and
\* leaves the staged file behind (leaked) or not
RouterOut(raised, value, leaked) == [raised |-> raised, value |-> value, leaked |-> leaked]

attempt_process_file_bytes(bytes, filename, fault, enabled) ==
    IF fault = "sniff" THEN RouterOut(TRUE, None, FALSE)
    ELSE IF filename = NoName THEN RouterOut(FALSE, None, FALSE)  \* os.path.splitext(None)
    ELSE IF fault = "create" THEN RouterOut(FALSE, None, FALSE)
    ELSE IF fault = "write" THEN RouterOut(FALSE, None, TRUE)     \* temp_path still None
    ELSE RouterOut(FALSE, Dispatch(bytes, Lower(filename), fault, enabled), FALSE)

(***************************************************************************)
(* State.                                                                  *)
(***************************************************************************)
VARIABLES
    ocr,             \* ENABLE_OCR and OCR_AVAILABLE (lines 28-30, 37)
    tempFiles,       \* number of staged temporary files that still exist
    \* run_quiz_workflow
    wpc,             \* position of the worker ("off": no worker runs)
    now,             \* time.time() - start_time, in seconds
    body_text,
    problem_text,
    submit_url,
    file_bytes,
    fname,
    answer_payload,
    posts,           \* the POSTs issued: url, answer, time, outcome
    \* heuristic_solve
    spc,             \* position of the solver
    low,
    evald,           \* the expression handed to eval (<<>>: none was)
    bts,             \* the file fetched again by the tabular-sum rule
    dlname,
    result,          \* the value returned
    ruleLog,         \* the rules evaluated so far, each with its result
    trace,           \* router calls, link discoveries and fetches, in order
    \* direct calls of attempt_process_file_bytes
    rcalls,
    rout,
    rfault

vars == <<ocr, tempFiles, wpc, now, body_text, problem_text, submit_url,
          file_bytes, fname, answer_payload, posts, spc, low, evald, bts, dlname,
          result, ruleLog, trace, rcalls, rout, rfault>>

workerVars == <<wpc, body_text, problem_text, submit_url, file_bytes, fname,
                answer_payload, posts>>
solverVars == <<spc, low, evald, bts, dlname, result, ruleLog, trace>>
routerVars == <<rcalls, rout, rfault>>

NoUrl == <<>>

\* an await that takes up to maxd seconds of the worker's wall clock
Elapse(maxd) ==
    IF wpc = "off" THEN now' = now ELSE \E d \in {0, maxd} : now' = now + d

(***************************************************************************)
(* heuristic_solve (lines 249-280), one step per await.                    *)
(***************************************************************************)
NPage3 == <<"p","a","g","e"," ","3">>
\* the rule keyed on another page
TabularSumAppliesPage3(l) ==
    Contains(l, Needle.sum_of) /\ Contains(l, Needle.value) /\ Contains(l, NPage3)

\* line 252
TabularSumApplies(l) ==
    Contains(l, Needle.sum_of) /\ Contains(l, Needle.value) /\ Contains(l, Needle.page2)

\* lines 272-275
BooleanApplies(l) == Contains(l, Needle.true_or_false) \/ Contains(l, Needle.is_the_following_true)
BooleanRule(l) ==
    IF BooleanApplies(l)
    THEN (IF Contains(l, Needle.true) \/ Contains(l, Needle.yes) THEN BoolV(TRUE) ELSE BoolV(FALSE))
    ELSE None

\* line 280
FinalFallback(text) == TextV(Take(text, FallbackLen))

\* `filename or "file"`
OrFile(name) == IF name = NoName \/ name = <<>> THEN Name.file ELSE name

RuleEntry(n, v) == [rule |-> n, res |-> v]
Event(e, n, arg, fault, v) == [e |-> e, rule |-> n, arg |-> arg, fault |-> fault, res |-> v]
RaiseV == [t |-> "raise"]

\* lines 264-275: the rules that need no await, arithmetic before boolean,
\* given the result of each
\* boolean before arithmetic
FirstOfSwapped(a, b) ==
    IF b # None THEN <<RuleEntry(2, None), RuleEntry(3, b)>>
    ELSE IF a # None THEN <<RuleEntry(2, a)>>
    ELSE <<RuleEntry(2, None), RuleEntry(3, None)>>

FirstOf(a, b) ==
    IF a # None THEN <<RuleEntry(2, a)>>
    ELSE <<RuleEntry(2, None), RuleEntry(3, b)>>

SyncRules(l) == FirstOf(ArithmeticRule(l), BooleanRule(l))

Last(q) == q[Len(q)]

\* a result that never ends the rule
FirstResultWinsNever(v) == FALSE

\* lines 255 and 262: `if v is not None: return v`
FirstResultWins(v) == v # None

\* `return v`
Return(v, log) ==
    /\ spc' = "returned"
    /\ result' = v
    /\ ruleLog' = log

\* lines 250-253
SolveStart ==
    /\ spc = "start"
    /\ low' = Lower(Strip(problem_text))
    /\ IF TabularSumApplies(low')
       THEN /\ spc' = IF Truthy(file_bytes) THEN "r1_router" ELSE "r1_link"
            /\ ruleLog' = ruleLog
       ELSE /\ spc' = "sync_rules"
            /\ ruleLog' = Append(ruleLog, RuleEntry(1, None))
    /\ UNCHANGED <<evald, bts, dlname, result, trace>>
    /\ UNCHANGED <<ocr, tempFiles, now, workerVars, routerVars>>

\* the router's call leaves a staged file behind or not, and is logged
RouterCalled(rule, arg, fault, out) ==
    /\ tempFiles' = tempFiles + (IF out.leaked THEN 1 ELSE 0)
    /\ trace' = Append(trace, Event("router", rule, arg, fault,
                                    IF out.raised THEN RaiseV ELSE out.value))

\* lines 254-256 once the router has answered out
TabularFirstAttemptOn(fault, out) ==
    /\ RouterCalled(1, "supplied", fault, out)
    /\ IF out.raised
       THEN spc' = "raised" /\ UNCHANGED <<result, ruleLog>>
       ELSE IF FirstResultWins(out.value)
       THEN Return(out.value, Append(ruleLog, RuleEntry(1, out.value)))
       ELSE spc' = "r1_link" /\ UNCHANGED <<result, ruleLog>>

\* lines 254-256
TabularFirstAttempt ==
    /\ spc = "r1_router"
    /\ \E fault \in Faults :
         TabularFirstAttemptOn(fault,
             attempt_process_file_bytes(file_bytes, OrFile(fname), fault, ocr))
    /\ UNCHANGED <<low, evald, bts, dlname>>
    /\ UNCHANGED <<ocr, now, workerVars, routerVars>>

\* lines 257-258: find_download_link catches its own errors (lines 150-152)
TabularFindLink ==
    /\ spc = "r1_link"
    /\ \E found \in BOOLEAN :
         /\ trace' = Append(trace, Event("link", 1, IF found THEN "found" ELSE "absent",
                                         "none", None))
         /\ IF found
            THEN spc' = "r1_download" /\ ruleLog' = ruleLog
            ELSE spc' = "sync_rules" /\ ruleLog' = Append(ruleLog, RuleEntry(1, None))
    /\ Elapse(PageTimeoutCap)
    /\ UNCHANGED <<low, evald, bts, dlname, result>>
    /\ UNCHANGED <<ocr, tempFiles, workerVars, routerVars>>

\* tables used by the solver and the worker
Sheet ==
    [ten |-> <<<<Col.value, Col.amount>>, <<Cell.five, Cell.text>>, <<Cell.five, Cell.five>>>>,
     five |-> <<<<Col.amount>>, <<Cell.five>>>>,
     text |-> <<<<Col.amount>>, <<Cell.text>>>>]
\* files used by the solver, the worker and the router; empty is b"",
\* garbage is in no format a parser reads, image holds the text
\* pytesseract reads from it
Doc ==
    [csv_ten |-> Blob("csv", Mime.csv, Sheet.ten),
     csv_five |-> Blob("csv", Mime.plain, Sheet.five),
     csv_text |-> Blob("csv", Mime.csv, Sheet.text),
     pdf_ten |-> Blob("pdf", Mime.pdf, <<<<FrontTable>>, <<Sheet.ten>>>>),
     pdf_amount |-> Blob("pdf", Mime.pdf, <<<<FrontTable>>, <<Sheet.five>>>>),
     empty |-> Blob("empty", Mime.empty, <<>>),
     garbage |-> Blob("garbage", Mime.bin, <<>>),
     image |->
       Blob("image", Mime.png, <<" ","W","h","a","t"," ","i","s"," ","2","+","3","*","4","?"," ">>)]

File(b, n) == [bytes |-> b, name |-> n]

\* what download_file_bytes returns (lines 154-169): (None, None) on an
\* error, else the content and a name that is never None
Downloads ==
    {File(NoFile, NoName), File(Doc.csv_five, Name.csv), File(Doc.empty, Name.bin),
     File(Doc.garbage, Name.bin)}

\* lines 259-260
TabularDownload ==
    /\ spc = "r1_download"
    /\ \E d \in Downloads :
         /\ bts' = d.bytes
         /\ dlname' = d.name
         /\ trace' = Append(trace, Event("fetch", 1,
                                         IF d.bytes = NoFile THEN "failed" ELSE "ok",
                                         "none", None))
         /\ IF Truthy(d.bytes)
            THEN spc' = "r1_retry" /\ ruleLog' = ruleLog
            ELSE spc' = "sync_rules" /\ ruleLog' = Append(ruleLog, RuleEntry(1, None))
    /\ Elapse(HttpTimeout)
    /\ UNCHANGED <<low, evald, result>>
    /\ UNCHANGED <<ocr, tempFiles, workerVars, routerVars>>

\* lines 261-263 once the router has answered out
TabularRetryOn(fault, out) ==
    /\ RouterCalled(1, "fetched", fault, out)
    /\ IF out.raised
       THEN spc' = "raised" /\ UNCHANGED <<result, ruleLog>>
       ELSE IF FirstResultWins(out.value)
       THEN Return(out.value, Append(ruleLog, RuleEntry(1, out.value)))
       ELSE /\ spc' = "sync_rules"
            /\ ruleLog' = Append(ruleLog, RuleEntry(1, None))
            /\ result' = result

\* lines 261-263
TabularRetry ==
    /\ spc = "r1_retry"
    /\ \E fault \in Faults :
         TabularRetryOn(fault, attempt_process_file_bytes(bts, dlname, fault, ocr))
    /\ UNCHANGED <<low, evald, bts, dlname>>
    /\ UNCHANGED <<ocr, now, workerVars, routerVars>>

\* lines 264-276 and 280 given the rules evaluated, rs, and the fallback fb
ArithmeticAndBooleanOn(rs, fb) ==
    IF Last(rs).res # None
    THEN Return(Last(rs).res, ruleLog \o rs)
    ELSE IF Truthy(file_bytes)
    THEN spc' = "r4_router" /\ ruleLog' = ruleLog \o rs /\ result' = result
    ELSE Return(fb, ruleLog \o rs \o <<RuleEntry(4, None), RuleEntry(5, fb)>>)

\* lines 264-276 and 280
ArithmeticAndBoolean ==
    /\ spc = "sync_rules"
    /\ evald' = Evaluated(low)
    /\ ArithmeticAndBooleanOn(SyncRules(low), FinalFallback(problem_text))
    /\ UNCHANGED <<low, bts, dlname, trace>>
    /\ UNCHANGED <<ocr, tempFiles, now, workerVars, routerVars>>

\* lines 277-280 once the router has answered out
FileFallbackOn(fault, out, fb) ==
    /\ RouterCalled(4, "supplied", fault, out)
    /\ IF out.raised
       THEN spc' = "raised" /\ UNCHANGED <<result, ruleLog>>
       ELSE IF out.value # None
       THEN Return(out.value, Append(ruleLog, RuleEntry(4, out.value)))
       ELSE Return(fb, ruleLog \o <<RuleEntry(4, None), RuleEntry(5, fb)>>)

\* lines 277-280
FileFallback ==
    /\ spc = "r4_router"
    /\ \E fault \in Faults :
         FileFallbackOn(fault,
             attempt_process_file_bytes(file_bytes, OrFile(fname), fault, ocr),
             FinalFallback(problem_text))
    /\ UNCHANGED <<low, evald, bts, dlname>>
    /\ UNCHANGED <<ocr, now, workerVars, routerVars>>

SolverIdle ==
    /\ low = <<>>
    /\ evald = <<>>
    /\ bts = NoFile
    /\ dlname = NoName
    /\ result = None
    /\ ruleLog = <<>>
    /\ trace = <<>>

RouterIdle ==
    /\ rcalls = 0
    /\ rout = RouterOut(FALSE, None, FALSE)
    /\ rfault = "none"

(***************************************************************************)
(* SpecSolve: heuristic_solve called on every problem text and file.       *)
(***************************************************************************)
SolveFiles ==
    {File(NoFile, NoName), File(Doc.empty, Name.bin), File(Doc.csv_ten, Name.csv),
     File(Doc.csv_ten, NoName), File(Doc.csv_text, Name.csv), File(Doc.pdf_ten, Name.pdf),
     File(Doc.pdf_amount, Name.pdf), File(Doc.image, Name.png), File(Doc.garbage, Name.bin)}

InitSolve ==
    /\ ocr \in BOOLEAN
    /\ tempFiles = 0
    /\ wpc = "off"
    /\ now = 0
    /\ body_text = <<>>
    /\ problem_text \in Texts
    /\ submit_url = NoUrl
    /\ \E f \in SolveFiles : file_bytes = f.bytes /\ fname = f.name
    /\ answer_payload = None
    /\ posts = <<>>
    /\ spc = "start"
    /\ SolverIdle
    /\ RouterIdle

NextSolve ==
    \/ SolveStart
    \/ TabularFirstAttempt
    \/ TabularFindLink
    \/ TabularDownload
    \/ TabularRetry
    \/ ArithmeticAndBoolean
    \/ FileFallback

SpecSolve == InitSolve /\ [][NextSolve]_vars

(***************************************************************************)
(* SpecRouter: attempt_process_file_bytes called directly, MaxCalls times  *)
(* one after the other, on every file of the model.                        *)
(***************************************************************************)
RouterBlobs ==
    {Blob("csv", m, t) : m \in {Mime.csv, Mime.plain}, t \in Tables}
    \cup {Blob("excel", m, t) : m \in {Mime.xls, Mime.zip}, t \in Tables}
    \cup {Blob("pdf", Mime.pdf, d) : d \in PdfDocs}
    \cup {Doc.image, Doc.garbage, Doc.empty}

RouterNames == {Name.csv, Name.pdf, Name.xlsx, Name.png, Name.file, NoName}

\* one call, once the router has answered out
RouterCallOn(fault, out) ==
    /\ rout' = out
    /\ rfault' = fault
    /\ tempFiles' = tempFiles + (IF out.leaked THEN 1 ELSE 0)

RouterCall ==
    /\ rcalls < MaxCalls
    /\ rcalls' = rcalls + 1
    /\ \E fault \in Faults :
         RouterCallOn(fault, attempt_process_file_bytes(file_bytes, fname, fault, ocr))
    /\ UNCHANGED <<ocr, now, workerVars, solverVars>>

InitRouter ==
    /\ ocr \in BOOLEAN
    /\ tempFiles = 0
    /\ wpc = "off"
    /\ now = 0
    /\ body_text = <<>>
    /\ problem_text = <<>>
    /\ submit_url = NoUrl
    /\ file_bytes \in RouterBlobs
    /\ fname \in RouterNames
    /\ answer_payload = None
    /\ posts = <<>>
    /\ spc = "idle"
    /\ SolverIdle
    /\ RouterIdle

NextRouter == RouterCall

SpecRouter == InitRouter /\ [][NextRouter]_vars

(***************************************************************************)
(* run_quiz_workflow (lines 57-110), one step per await.  An exception of  *)
(* any step ends the worker in the handler of line 107.                    *)
(***************************************************************************)
\* re.search(r"(Q\d{2,4}\..+)", body_text, re.DOTALL) matches at i
QuestionAt(s, i) ==
    /\ s[i] = "Q"
    /\ \E n \in 2..4 :
         /\ i + n + 2 <= Len(s)
         /\ \A k \in 1..n : IsDigit(s[i + k])
         /\ s[i + n + 1] = "."

\* re.search(r"(Download[^\n\r]+[\s\S]+)", body_text, re.IGNORECASE) matches
\* at i, l being the text in lower case
DownloadAt(s, l, i) ==
    /\ OccursAt(Needle.download, l, i)
    /\ i + Len(Needle.download) + 1 <= Len(s)
    /\ s[i + Len(Needle.download)] \notin {"\n", "\r"}

FromPosition(s, S) == SubSeq(s, First(S), Len(s))

\* lines 120-127 given the positions of both patterns
FirstPattern(s, qs, ds) ==
    IF qs # {} THEN FromPosition(s, qs)
    ELSE IF ds # {} THEN FromPosition(s, ds)
    ELSE s

DownloadPositions(s, l) == {i \in 1..Len(s) : DownloadAt(s, l, i)}

\* lines 112-127.  The element query of lines 114-117 always raises
\* (run_until_complete inside the running loop) and is passed over.
extract_problem_text(text) ==
    IF text = <<>> THEN <<>>
    ELSE FirstPattern(text, {i \in 1..Len(text) : QuestionAt(text, i)},
                      DownloadPositions(text, Lower(text)))

\* [^\s'\"<>]
UrlChar(c) == ~IsSpace(c) /\ c \notin {"'", "\"", "<", ">"}

UrlEnd(s, i) ==
    LET stops == {j \in i..Len(s) : ~UrlChar(s[j])}
    IN  IF stops = {} THEN Len(s) ELSE First(stops) - 1

\* the length of https?:// at i, 0 when it is not there
SchemeAt(s, i) ==
    IF OccursAt(Needle.https, s, i) THEN Len(Needle.https)
    ELSE IF OccursAt(Needle.http, s, i) THEN Len(Needle.http)
    ELSE 0

\* the pattern matches at i: a scheme and one URL character at least
UrlAt(s, i) ==
    /\ SchemeAt(s, i) > 0
    /\ i + SchemeAt(s, i) <= Len(s)
    /\ UrlChar(s[i + SchemeAt(s, i)])

\* the last index of the match that starts at i
MatchEnd(s, i) == UrlEnd(s, i + SchemeAt(s, i))

RECURSIVE FindAllUrls(_, _)
RECURSIVE UrlsFrom(_, _)
\* the matches at the positions of starts and after, none overlapping
UrlsFrom(s, starts) ==
    IF starts = {} THEN <<>>
    ELSE <<SubSeq(s, First(starts), MatchEnd(s, First(starts)))>>
         \o FindAllUrls(s, MatchEnd(s, First(starts)) + 1)

\* re.findall(r"https?://[^\s'\"<>]+", combined), searched from i on
FindAllUrls(s, i) == UrlsFrom(s, {j \in i..Len(s) : UrlAt(s, j)})

\* lines 132-135
FirstSubmitUrl(urls) ==
    IF \E k \in 1..Len(urls) : Contains(urls[k], Needle.submit)
    THEN urls[First({k \in 1..Len(urls) : Contains(urls[k], Needle.submit)})]
    ELSE NoUrl

\* lines 129-135
find_submit_url(body, problem) ==
    FirstSubmitUrl(FindAllUrls(problem \o <<"\n">> \o body, 1))


\* what re_search_data_uri and decode_data_uri make of the page (lines 77-79)
DataUris == {File(NoFile, NoName), File(Doc.csv_ten, Name.embedded_csv)}

\* what try_find_submit_from_scripts returns (lines 282-295)
ScriptUrls ==
    {NoUrl, <<"h","t","t","p",":","/","/","q","/","s","u","b","m","i","t","2">>}

\* line 107: any exception ends the worker, nothing more is done
Fail ==
    /\ wpc' = "failed"
    /\ UNCHANGED <<body_text, problem_text, submit_url, file_bytes, fname,
                   answer_payload, posts>>

\* lines 60-65: launch, new_context, new_page, goto
Navigate ==
    /\ wpc = "start"
    /\ \/ Fail
       \/ /\ wpc' = "loaded"
          /\ UNCHANGED <<body_text, problem_text, submit_url, file_bytes, fname,
                         answer_payload, posts>>
    /\ Elapse(PageTimeoutCap)
    /\ UNCHANGED <<ocr, tempFiles, solverVars, routerVars>>

\* lines 66-69: the body text is read, the problem text and the submit URL
\* are taken from it
ReadBody ==
    /\ wpc = "loaded"
    /\ \/ Fail
       \/ /\ wpc' = "find_link"
          /\ problem_text' = extract_problem_text(body_text)
          /\ submit_url' = find_submit_url(body_text, problem_text')
          /\ UNCHANGED <<body_text, file_bytes, fname, answer_payload, posts>>
    /\ Elapse(PageTimeoutCap)
    /\ UNCHANGED <<ocr, tempFiles, solverVars, routerVars>>

\* lines 70-73: find_download_link catches its own errors
FindDownloadLink ==
    /\ wpc = "find_link"
    /\ \E found \in BOOLEAN : wpc' = IF found THEN "download" ELSE "data_uri"
    /\ Elapse(PageTimeoutCap)
    /\ UNCHANGED <<body_text, problem_text, submit_url, file_bytes, fname,
                   answer_payload, posts>>
    /\ UNCHANGED <<ocr, tempFiles, solverVars, routerVars>>

\* lines 74-76
DownloadFile ==
    /\ wpc = "download"
    /\ \E d \in Downloads :
         /\ file_bytes' = d.bytes
         /\ fname' = d.name
         /\ wpc' = IF Truthy(d.bytes) THEN "solve" ELSE "data_uri"
    /\ Elapse(HttpTimeout)
    /\ UNCHANGED <<body_text, problem_text, submit_url, answer_payload, posts>>
    /\ UNCHANGED <<ocr, tempFiles, solverVars, routerVars>>

\* lines 76-81: page.content() or the base64 decoding may raise
DecodeDataUri ==
    /\ wpc = "data_uri"
    /\ \/ Fail
       \/ \E d \in DataUris :
            /\ IF d.bytes = NoFile
               THEN UNCHANGED <<file_bytes, fname>>
               ELSE file_bytes' = d.bytes /\ fname' = d.name
            /\ wpc' = IF ocr /\ ~Truthy(file_bytes') THEN "screenshot" ELSE "solve"
            /\ UNCHANGED <<body_text, problem_text, submit_url, answer_payload, posts>>
    /\ Elapse(PageTimeoutCap)
    /\ UNCHANGED <<ocr, tempFiles, solverVars, routerVars>>

\* lines 81-85
Screenshot ==
    /\ wpc = "screenshot"
    /\ \/ Fail
       \/ /\ file_bytes' = Doc.image
          /\ fname' = Name.snapshot
          /\ wpc' = "solve"
          /\ UNCHANGED <<body_text, problem_text, submit_url, answer_payload, posts>>
    /\ Elapse(PageTimeoutCap)
    /\ UNCHANGED <<ocr, tempFiles, solverVars, routerVars>>

\* lines 88-89: heuristic_solve is entered
CallSolver ==
    /\ wpc = "solve"
    /\ problem_text # <<>>
    /\ wpc' = "solving"
    /\ spc' = "start"
    /\ UNCHANGED <<body_text, problem_text, submit_url, file_bytes, fname,
                   answer_payload, posts>>
    /\ UNCHANGED <<low, evald, bts, dlname, result, ruleLog, trace>>
    /\ UNCHANGED <<ocr, tempFiles, now, routerVars>>

\* line 89: heuristic_solve has returned, or raised
SolverDone ==
    /\ wpc = "solving"
    /\ spc \in {"returned", "raised"}
    /\ IF spc = "raised"
       THEN Fail
       ELSE /\ answer_payload' = result
            /\ wpc' = "find_submit"
            /\ UNCHANGED <<body_text, problem_text, submit_url, file_bytes, fname, posts>>
    /\ UNCHANGED <<ocr, tempFiles, now, solverVars, routerVars>>

\* lines 90-91 once the router has answered out
RouteFileOn(fault, out) ==
    /\ rout' = out
    /\ rfault' = fault
    /\ tempFiles' = tempFiles + (IF out.leaked THEN 1 ELSE 0)
    /\ IF out.raised
       THEN Fail
       ELSE /\ answer_payload' = out.value
            /\ wpc' = "find_submit"
            /\ UNCHANGED <<body_text, problem_text, submit_url, file_bytes, fname, posts>>

\* lines 90-91: no problem text, a file
RouteFile ==
    /\ wpc = "solve"
    /\ problem_text = <<>>
    /\ Truthy(file_bytes)
    /\ rcalls' = rcalls + 1
    /\ \E fault \in Faults :
         RouteFileOn(fault, attempt_process_file_bytes(file_bytes, fname, fault, ocr))
    /\ UNCHANGED <<ocr, now, solverVars>>

\* lines 92-93: neither
EmptyAnswer ==
    /\ wpc = "solve"
    /\ problem_text = <<>>
    /\ ~Truthy(file_bytes)
    /\ answer_payload' = FinalFallback(problem_text)
    /\ wpc' = "find_submit"
    /\ UNCHANGED <<body_text, problem_text, submit_url, file_bytes, fname, posts>>
    /\ UNCHANGED <<ocr, tempFiles, now, solverVars, routerVars>>

\* lines 94-95: try_find_submit_from_scripts catches its own errors
FindSubmit ==
    /\ wpc = "find_submit"
    /\ IF submit_url = NoUrl
       THEN (\E u \in ScriptUrls : submit_url' = u) /\ Elapse(PageTimeoutCap)
       ELSE UNCHANGED <<submit_url, now>>
    /\ wpc' = "submit"
    /\ UNCHANGED <<body_text, problem_text, file_bytes, fname, answer_payload, posts>>
    /\ UNCHANGED <<ocr, tempFiles, solverVars, routerVars>>

\* a submission that does not look at the answer
ShouldSubmitAnyAnswer(url, answer) == url # NoUrl

\* line 96
ShouldSubmit(url, answer) == url # NoUrl /\ answer # None

Post(url, answer, at, ok) == [url |-> url, answer |-> answer, at |-> at, ok |-> ok]

\* lines 96-105: one POST, whose failure is caught and printed
Submit ==
    /\ wpc = "submit"
    /\ IF ShouldSubmit(submit_url, answer_payload)
       THEN /\ \E ok \in BOOLEAN :
                 posts' = Append(posts, Post(submit_url, answer_payload, now, ok))
            /\ Elapse(HttpTimeout)
       ELSE UNCHANGED <<posts, now>>
    /\ wpc' = "close"
    /\ UNCHANGED <<body_text, problem_text, submit_url, file_bytes, fname, answer_payload>>
    /\ UNCHANGED <<ocr, tempFiles, solverVars, routerVars>>

\* lines 106-110: browser.close(); whether it raises or not the worker ends
Close ==
    /\ wpc = "close"
    /\ wpc' = "done"
    /\ Elapse(PageTimeoutCap)
    /\ UNCHANGED <<body_text, problem_text, submit_url, file_bytes, fname,
                   answer_payload, posts>>
    /\ UNCHANGED <<ocr, tempFiles, solverVars, routerVars>>

\* line 58: the worker starts on a page
Init ==
    /\ ocr \in BOOLEAN
    /\ tempFiles = 0
    /\ wpc = "start"
    /\ now = 0
    /\ body_text \in BodyTexts
    /\ problem_text = <<>>
    /\ submit_url = NoUrl
    /\ file_bytes = NoFile
    /\ fname = NoName
    /\ answer_payload = None
    /\ posts = <<>>
    /\ spc = "idle"
    /\ SolverIdle
    /\ RouterIdle

Next ==
    \/ Navigate
    \/ ReadBody
    \/ FindDownloadLink
    \/ DownloadFile
    \/ DecodeDataUri
    \/ Screenshot
    \/ CallSolver
    \/ SolverDone
    \/ RouteFile
    \/ EmptyAnswer
    \/ FindSubmit
    \/ Submit
    \/ Close
    \/ NextSolve

Spec == Init /\ [][Next]_vars

(***************************************************************************)
(* Properties.                                                             *)
(***************************************************************************)
Returned == spc = "returned"

\* the events of the tabular-sum rule (they precede those of rule 4)
IsRule1(ev) == ev.rule = 1
Rule1Trace == SelectSeq(trace, IsRule1)

RouterEvents(tr) == {k \in 1..Len(tr) : tr[k].e = "router"}
FetchEvents(tr) == {k \in 1..Len(tr) : tr[k].e = "fetch"}
LinkEvents(tr) == {k \in 1..Len(tr) : tr[k].e = "link"}
Yields(tr) == {k \in RouterEvents(tr) : tr[k].res # None /\ tr[k].res # RaiseV}

\* the first non-absent router result of tr, None when there is none
FirstYield(tr) == IF Yields(tr) = {} THEN None ELSE tr[First(Yields(tr))].res

\* C1: heuristic_solve never raises to its caller and never returns None,
\* whatever the text, the file and the failures of its collaborators.
C1_AlwaysAnAnswer ==
    /\ spc # "raised"
    /\ Returned => result # None

\* C2: no answer is posted once the time elapsed since the worker started
\* exceeds WORKER_TIMEOUT_SECONDS.
C2_NoPostAfterTimeout ==
    \A k \in 1..Len(posts) : posts[k].at <= WORKER_TIMEOUT_SECONDS

\* C3: after any sequence of calls of attempt_process_file_bytes no staged
\* temporary file of a finished call still exists.
C3_NoStagedFileRemains == tempFiles = 0

\* C4: the value returned is the result of the first rule, in the order
\* tabular-sum, arithmetic, boolean, file fallback, final fallback, that
\* produces one; every rule before it was evaluated and produced none, no
\* rule after it is evaluated, and the file fallback calls the router only
\* when the three rules before it produced nothing.
C4_RuleResults(log, r1, r4) ==
    /\ \A i \in 1..Len(log) : log[i].rule = i
    /\ \A i \in 1..(Len(log) - 1) : log[i].res = None
    /\ Len(log) >= 1 => log[1].res = FirstYield(r1)
    /\ Len(log) >= 2 => log[2].res = ArithmeticRule(low)
    /\ Len(log) >= 3 => log[3].res = BooleanRule(low)
    /\ Len(log) >= 4 => log[4].res = FirstYield(r4)
    /\ Len(log) >= 5 => log[5].res = FinalFallback(problem_text)
    /\ r4 # <<>> => Len(log) >= 3 /\ \A i \in 1..3 : log[i].res = None

IsRule4(ev) == ev.rule = 4

C4_FirstMatchWins ==
    /\ C4_RuleResults(ruleLog, Rule1Trace, SelectSeq(trace, IsRule4))
    /\ Returned => /\ ruleLog # <<>>
                   /\ Last(ruleLog).res # None
                   /\ result = Last(ruleLog).res

\* C4 witness: the tabular-sum rule produced nothing, the arithmetic rule
\* returned, and neither the boolean rule, which the text matches, nor the
\* file fallback, for which a file is there, was evaluated: the router was
\* not called.
C4_Witness ==
    /\ Returned
    /\ Len(ruleLog) = 2
    /\ trace = <<>>
    /\ BooleanApplies(low)
    /\ Truthy(file_bytes)
    /\ result = ArithmeticRule(low)

\* the fault of the router's first call on the supplied file ("none" when
\* the router was not called on it)
FirstFault ==
    IF trace # <<>> /\ trace[1].e = "router" /\ trace[1].arg = "supplied"
    THEN trace[1].fault
    ELSE "none"

\* what the router yields for the supplied file
RouterYield == attempt_process_file_bytes(file_bytes, OrFile(fname), FirstFault, ocr).value

ReturnsRouterValue(v) == v # None => result = v

\* C5 as stated: a text with "sum of" and "value" and a file for which the
\* router yields a value make heuristic_solve return that value.
C5_SumOfValue ==
    (Returned /\ Contains(low, Needle.sum_of) /\ Contains(low, Needle.value) /\ Truthy(file_bytes))
        => ReturnsRouterValue(RouterYield)

\* C5 amended: a text with "sum of", "value" and "page 2" and a file for
\* which the router yields a value make heuristic_solve return that value,
\* also when the text matches the arithmetic pattern or the boolean phrasing.
C5_SumOfValuePage2 ==
    (Returned /\ Contains(low, Needle.sum_of) /\ Contains(low, Needle.value)
              /\ Contains(low, Needle.page2) /\ Truthy(file_bytes))
        => ReturnsRouterValue(RouterYield)

\* C5 witness: such a text that also matches the arithmetic pattern, and the
\* router's value returned.
C5_Witness ==
    /\ Returned
    /\ Contains(low, Needle.sum_of) /\ Contains(low, Needle.value) /\ Contains(low, Needle.page2)
    /\ ArithmeticRule(low) # None
    /\ Truthy(file_bytes)
    /\ RouterYield # None
    /\ result = RouterYield

TrueOrFalseNope == <<"t","r","u","e"," ","o","r"," ","f","a","l","s","e",","," ","n","o","p","e">>
TrueOrFalseYes == <<"t","r","u","e"," ","o","r"," ","f","a","l","s","e",","," ","y","e","s"," ","t","h","i","s"," ","w","o","r","k","s">>

\* C6: when the boolean rule is reached it returns true if the text also
\* holds "true" or "yes" and false otherwise; "true or false, yes this
\* works" yields true and "true or false, nope" yields false.
C6_BooleanRule ==
    (Returned /\ Len(ruleLog) = 3) =>
        /\ result = BoolV(Contains(low, Needle.true) \/ Contains(low, Needle.yes))
        /\ low = TrueOrFalseYes => result = BoolV(TRUE)
        /\ low = TrueOrFalseNope => result = BoolV(FALSE)

\* the expressions between a "what is " and the "?" that follows it
NextQuestionMark(l, b) == {j \in b..Len(l) : l[j] = "?"}
Candidates(l) ==
    {SubSeq(l, i + Len(Needle.what_is), First(NextQuestionMark(l, i + Len(Needle.what_is))) - 1) :
        i \in {p \in 1..Len(l) : OccursAt(Needle.what_is, l, p)
                                 /\ NextQuestionMark(l, p + Len(Needle.what_is)) # {}}}

OnlyChars(e, allowed(_)) == Len(e) >= 1 /\ \A i \in 1..Len(e) : allowed(e[i])

DigitSpaceOperator(c) == IsDigit(c) \/ IsSpace(c) \/ c \in {"+", "-", "*", "/"}
DigitSpaceOperatorPoint(c) == DigitSpaceOperator(c) \/ c = "."

\* the arithmetic rule has been evaluated
ArithmeticDone == Len(ruleLog) >= 2

ArithmeticGuard(allowed(_)) ==
    ArithmeticDone =>
        /\ evald # <<>> => evald \in Candidates(low) /\ OnlyChars(evald, allowed)
        /\ (\A e \in Candidates(low) : ~OnlyChars(e, allowed)) =>
              /\ evald = <<>>
              /\ ruleLog[2].res = None
              /\ Returned => Len(ruleLog) >= 3

\* C7 as stated: an expression is evaluated only if it consists solely of
\* digits, whitespace and + - * /; a text without such an expression between
\* "what is" and "?" gets no result from the rule, nothing is evaluated and
\* the later rules decide.
C7_DigitsSpaceOperators == ArithmeticGuard(DigitSpaceOperator)

\* C7 amended: the same with the decimal point among the characters allowed.
C7_DigitsSpaceOperatorsPoint == ArithmeticGuard(DigitSpaceOperatorPoint)

\* C7 witness: "what is 2+a?" was not evaluated and the boolean rule, the
\* next one, returned.
C7_Witness ==
    /\ Returned
    /\ Len(ruleLog) = 3
    /\ Candidates(low) # {}
    /\ \A e \in Candidates(low) : ~OnlyChars(e, DigitSpaceOperatorPoint)
    /\ evald = <<>>
    /\ result = BooleanRule(low)

\* C8: inside the tabular-sum rule the router is first tried on the supplied
\* file; a link is looked for and a file fetched only after that attempt gave
\* nothing; the router is tried on the fetched file only; there is one fetch
\* at most and two router calls at most; the rule's result is the first
\* non-absent router result, or none.
C8_Rule1(tr) ==
    /\ Cardinality(FetchEvents(tr)) <= 1
    /\ Cardinality(RouterEvents(tr)) <= 2
    /\ (tr # <<>> /\ Truthy(file_bytes)) => tr[1].e = "router" /\ tr[1].arg = "supplied"
    /\ \A k \in LinkEvents(tr) \cup FetchEvents(tr) :
          \A j \in RouterEvents(tr) : j < k => tr[j].res = None
    /\ \A k \in FetchEvents(tr) : k > 1 /\ tr[k - 1].e = "link" /\ tr[k - 1].arg = "found"
    /\ \A k \in RouterEvents(tr) :
          \/ tr[k].arg = "supplied" /\ k = 1
          \/ tr[k].arg = "fetched" /\ k > 1 /\ tr[k - 1].e = "fetch" /\ tr[k - 1].arg = "ok"
    /\ (tr # <<>> /\ ruleLog # <<>>) => ruleLog[1].res = FirstYield(tr)

C8_FetchOnceAfterNoResult == C8_Rule1(Rule1Trace)

\* C8 witness: the first attempt gave nothing, a file was fetched, and the
\* second attempt's value was returned.
C8_Witness ==
    /\ Returned
    /\ Cardinality(RouterEvents(Rule1Trace)) = 2
    /\ Cardinality(FetchEvents(Rule1Trace)) = 1
    /\ Len(ruleLog) = 1
    /\ result # None

\* the table on page index 1 of a PDF, <<>> when there is none
SecondPageTable(doc) ==
    IF Len(doc) >= 2 /\ doc[2] # <<>> THEN doc[2][1] ELSE <<>>

\* the column policy of the CSV branch, with the cells coerced
ColumnPolicy(table) ==
    IF table = <<>> THEN None
    ELSE IF ValueColumns(table) # {} THEN CoercedSum(table, First(ValueColumns(table)))
    ELSE IF NumericColumns(table) # {} THEN CoercedSum(table, First(NumericColumns(table)))
    ELSE None

\* C9: for a PDF the router returns the sum of the "value" column of the
\* table on page index 1, or else of its first numeric column, and None only
\* when there is no such page, table or column.
C9_PdfColumnPolicy ==
    (rcalls >= 1 /\ rfault = "none" /\ fname # NoName /\ file_bytes.format = "pdf")
        => rout.value = ColumnPolicy(SecondPageTable(file_bytes.payload))

\* C10: a run issues one POST at most, after the answer has been computed,
\* to a submit URL that was found and with an answer that is not None; with
\* no problem text and a file for which the router returns None nothing is
\* posted; a failed POST is not retried.
C10_AtMostOnePost ==
    /\ Len(posts) <= 1
    /\ \A k \in 1..Len(posts) :
          /\ wpc \in {"close", "done"}
          /\ posts[k].url # NoUrl /\ posts[k].url = submit_url
          /\ posts[k].answer # None /\ posts[k].answer = answer_payload
          /\ spc \in {"idle", "returned"}
          /\ spc = "returned" => posts[k].answer = result
    /\ (wpc \in {"close", "done"} /\ problem_text = <<>> /\ rcalls = 1 /\ rout.value = None)
          => posts = <<>>

\* C10 witness: the worker has ended after one POST, which failed.
C10_Witness ==
    /\ wpc = "done"
    /\ Len(posts) = 1
    /\ ~posts[1].ok

=============================================================================
